---- MODULE Spec2Model ----
(***************************************************************************)
(* TracesTable (web/src/components/table/use-cases/traces.tsx): the        *)
(* URL-backed filter / search / order / pagination state, the listing      *)
(* query and its result, the row selection mapping, the row transformation *)
(* and the props handed to DataTableToolbar and DataTable.                 *)
(***************************************************************************)
EXTENDS Integers, Sequences, FiniteSets, TLC

VARIABLES
    userId,            \* prop userId?: string
    userFilterState,   \* useQueryFilterState(...)[0]
    searchQuery,       \* useQueryParam("search", withDefault(StringParam, null))[0]
    orderByState,      \* useOrderByState(...)[0]
    paginationState,   \* useQueryParams({pageIndex, pageSize})[0]
    selectedRows,      \* useState<RowSelectionState>({})[0]: id -> boolean
    traces,            \* result of api.traces.all.useQuery(tracesAllQueryFilter)
    inflight,          \* query descriptors of the listing fetches not yet settled
    dynamicCell,       \* a TracesDynamicCell of one row: mounted or not, its traceId
    byId,              \* the api.traces.byId queries the cell observes, by trace id
    detailFetches,     \* number of traces.byId fetches issued so far
    lastOp             \* the last handler that ran, and the selection it found

vars == <<userId, userFilterState, searchQuery, orderByState, paginationState,
          selectedRows, traces, inflight, dynamicCell, byId, detailFetches,
          lastOp>>

urlVars == <<userFilterState, searchQuery, orderByState, paginationState>>

cellVars == <<dynamicCell, byId, detailFetches>>

----------------------------------------------------------------------------
(* JavaScript values: null, undefined, strings and numbers, kept apart.     *)

Null == [tag |-> "null"]
Undefined == [tag |-> "undefined"]
Str(s) == [tag |-> "string", val |-> s]
Num(n) == [tag |-> "number", val |-> n]
NaN == [tag |-> "NaN"]
PosInfinity == [tag |-> "Infinity"]

\* JavaScript truthiness of a value (the condition of `userId ? ... : ...`).
Truthy(v) == v \notin {Null, Undefined, Str(""), Num(0), NaN}

\* a ?? b
NullishCoalesce(a, b) == IF a \in {Null, Undefined} THEN b ELSE a

----------------------------------------------------------------------------
(* Bounds of the model.                                                     *)

MaxStaleInFlight == 1   \* listing fetches in flight for a descriptor no longer rendered
MaxFilters == 2         \* predicates in a user-edited filter list
MaxLatency == 2         \* latencies 0..MaxLatency of a remote record
MaxPageSize == 3        \* page sizes 0..MaxPageSize (and the default)
MaxTotalCount == 4      \* total counts 0..MaxTotalCount (and 100, 101)
MaxDetailFetches == 3   \* traces.byId fetches issued in one behaviour

(* Program constants.                                                       *)
DefaultPageIndex == 0
DefaultPageSize == 50

projectId == "p1"

----------------------------------------------------------------------------
(* Filter state.                                                            *)

TimestampFilter ==
    [column |-> "Timestamp", type |-> "datetime", operator |-> ">", value |-> "lookback"]

DefaultFilterState == <<TimestampFilter>>

\* The synthetic predicate of userIdFilter for the user id string u.
UserIdPredicate(u) ==
    [column |-> "User ID", type |-> "string", operator |-> "=", value |-> u]

\* userIdFilter with `userId !== undefined` in place of the truthiness test.
userIdFilter_definedTest ==
    IF userId # Undefined THEN <<UserIdPredicate(userId.val)>> ELSE << >>

userIdFilter ==
    IF Truthy(userId) THEN <<UserIdPredicate(userId.val)>> ELSE << >>

filterState == userFilterState \o userIdFilter

DefaultOrderBy == [column |-> "timestamp", order |-> "DESC"]

\* tracesAllQueryFilter with a 1-based page.
tracesAllQueryFilter_oneBasedPage ==
    [page |-> paginationState.pageIndex + 1,
     limit |-> paginationState.pageSize,
     projectId |-> projectId,
     filter |-> filterState,
     searchQuery |-> searchQuery,
     orderBy |-> orderByState]

tracesAllQueryFilter ==
    [page |-> paginationState.pageIndex,
     limit |-> paginationState.pageSize,
     projectId |-> projectId,
     filter |-> filterState,
     searchQuery |-> searchQuery,
     orderBy |-> orderByState]

\* Props of DataTableToolbar: the list the filter UI shows and edits.
ToolbarFilterState == userFilterState

----------------------------------------------------------------------------
(* The listing query result.                                                *)

LoadingResult == [status |-> "loading", data |-> Undefined, error |-> Null]
SuccessResult(r) == [status |-> "success", data |-> r, error |-> Null]
ErrorResult(d, msg) == [status |-> "error", data |-> d, error |-> [message |-> msg]]

isLoading == traces.status = "loading"
isError == traces.status = "error"
isSuccess == traces.status = "success"

SeqToSet(s) == {s[i] : i \in 1..Len(s)}
TraceId(t) == t.id

\* traces.data?.traces.map((t) => t.id), undefined when there is no data
LoadedIds ==
    IF traces.data = Undefined THEN Undefined ELSE [i \in 1..Len(traces.data.traces) |-> TraceId(traces.data.traces[i])]

totalCount ==
    IF traces.data = Undefined THEN 0 ELSE traces.data.totalCount

----------------------------------------------------------------------------
(* Row transformation and the props of DataTable.                           *)

\* convertToTableRow with `trace.latency ? trace.latency : undefined`.
convertToTableRow_falsyLatency(trace) ==
    [id |-> trace.id,
     name |-> NullishCoalesce(trace.name, Str("")),
     release |-> NullishCoalesce(trace.release, Undefined),
     version |-> NullishCoalesce(trace.version, Undefined),
     userId |-> NullishCoalesce(trace.userId, Str("")),
     sessionId |-> NullishCoalesce(trace.sessionId, Undefined),
     latency |-> IF Truthy(trace.latency) THEN trace.latency ELSE Undefined]

convertToTableRow(trace) ==
    [id |-> trace.id,
     name |-> NullishCoalesce(trace.name, Str("")),
     release |-> NullishCoalesce(trace.release, Undefined),
     version |-> NullishCoalesce(trace.version, Undefined),
     userId |-> NullishCoalesce(trace.userId, Str("")),
     sessionId |-> NullishCoalesce(trace.sessionId, Undefined),
     latency |-> IF trace.latency = Null THEN Undefined ELSE trace.latency]

\* The duration text of a number of seconds: never blank.
formatIntervalSeconds(seconds) == [tag |-> "duration", seconds |-> seconds.val]

\* columns[latency].cell with `value ? ... : undefined`.
LatencyCell_falsyTest(row) ==
    IF Truthy(row.latency) THEN formatIntervalSeconds(row.latency) ELSE Undefined

\* columns[latency].cell: what the latency cell of a row renders.
LatencyCell(row) ==
    IF row.latency # Undefined THEN formatIntervalSeconds(row.latency) ELSE Undefined

\* ts.map((t) => convertToTableRow(t))
ConvertRows(ts) == [i \in 1..Len(ts) |-> convertToTableRow(ts[i])]

\* Reading a property of undefined or null.
TypeError == [tag |-> "TypeError"]

\* The data prop without the isError branch.
DataProp_noErrorBranch ==
    IF isLoading THEN [isLoading |-> TRUE, isError |-> FALSE]
    ELSE IF traces.data = Undefined THEN TypeError
    ELSE [isLoading |-> FALSE, isError |-> FALSE,
          data |-> ConvertRows(traces.data.traces)]

\* The data prop of DataTable.
DataProp ==
    IF isLoading THEN [isLoading |-> TRUE, isError |-> FALSE]
    ELSE IF isError
         THEN IF traces.error = Null THEN TypeError
              ELSE [isLoading |-> FALSE, isError |-> TRUE, error |-> traces.error.message]
    ELSE IF traces.data = Undefined THEN TypeError
    ELSE [isLoading |-> FALSE, isError |-> FALSE,
          data |-> ConvertRows(traces.data.traces)]

\* Math.ceil(t / p) of a total count t >= 0 and a page size p >= 0.
CeilDiv_floor(t, p) ==
    IF p = 0 THEN (IF t = 0 THEN NaN ELSE PosInfinity)
    ELSE Num(t \div p)

CeilDiv(t, p) ==
    IF p = 0 THEN (IF t = 0 THEN NaN ELSE PosInfinity)
    ELSE Num(IF t % p = 0 THEN t \div p ELSE (t \div p) + 1)

\* pagination.pageCount of DataTable.
pageCount == CeilDiv(totalCount, paginationState.pageSize)

----------------------------------------------------------------------------
(* Row selection: selectedRows maps an id to true; a deselected id is       *)
(* removed from the mapping.                                                *)

EmptySelection == [k \in {} |-> TRUE]
Keys(m) == DOMAIN m
Selecting(S) == [k \in S |-> TRUE]

\* The ids of the rows DataTable builds from its data prop.
TableRowIds ==
    IF "data" \in DOMAIN DataProp
    THEN {DataProp.data[i].id : i \in 1..Len(DataProp.data)}
    ELSE {}

\* The state updates a handler hands to setSelectedRows: a new value, or an
\* updater applied to the value the updates before it left.
SetTo(m) == [kind |-> "set", value |-> m]
ToggleAllPageRows(rows, value) == [kind |-> "toggleAllPageRows", rows |-> rows, value |-> value]
ToggleRow(id, value) == [kind |-> "toggleRow", rows |-> {id}, value |-> value]

ApplyUpdate(old, u) ==
    IF u.kind = "set" THEN u.value
    ELSE IF u.value THEN Selecting(Keys(old) \cup u.rows)
    ELSE Selecting(Keys(old) \ u.rows)

RECURSIVE ApplyUpdates(_, _)
ApplyUpdates(old, queue) ==
    IF queue = << >> THEN old
    ELSE ApplyUpdates(ApplyUpdate(old, Head(queue)), Tail(queue))

getIsAllPageRowsSelected ==
    TableRowIds # {} /\ TableRowIds \subseteq Keys(selectedRows)

getIsSomePageRowsSelected ==
    ~getIsAllPageRowsSelected /\ TableRowIds \cap Keys(selectedRows) # {}

\* checked of the header checkbox
HeaderChecked ==
    IF getIsAllPageRowsSelected THEN "true"
    ELSE IF getIsSomePageRowsSelected THEN "indeterminate"
    ELSE "false"

\* onCheckedChange of the header checkbox without the clearing of the state.
HeaderUpdates_pageOnly(value) ==
    <<ToggleAllPageRows(TableRowIds, value)>>

\* onCheckedChange of the header checkbox: the updates it issues, in order.
HeaderUpdates(value) ==
    <<ToggleAllPageRows(TableRowIds, value)>>
        \o (IF ~value THEN <<SetTo(EmptySelection)>> ELSE << >>)

\* Object.keys(selectedRows).filter((traceId) => ids?.includes(traceId))
SelectedOnPage_all ==
    Keys(selectedRows)

SelectedOnPage ==
    IF traces.data = Undefined THEN {}
    ELSE {k \in Keys(selectedRows) : k \in SeqToSet(LoadedIds)}

\* actionButtons of DataTableToolbar is the multi-select control, not null.
ActionButtonsShown == Cardinality(SelectedOnPage) > 0

\* selectedTraceIds handing over every key of the selection.
selectedTraceIds_unfiltered ==
    Keys(selectedRows)

\* The selectedTraceIds prop of the multi-select control: the keys of the
\* selection kept by the filter "traces.data?.traces.map((t) => t.id)
\* .includes(traceId)", whose test is undefined (falsy) without data.
selectedTraceIds ==
    {traceId \in Keys(selectedRows) :
        /\ traces.data # Undefined
        /\ \E i \in 1..Len(traces.data.traces) :
              traces.data.traces[i].id = traceId}

\* onDeleteSuccess keeping the ids that were not deleted.
OnDeleteSuccessValue_deletedOnly == Selecting(Keys(selectedRows) \ SelectedOnPage)

\* onDeleteSuccess: the value it sets the selection to.
OnDeleteSuccessValue == EmptySelection

----------------------------------------------------------------------------
(* The listing query: useQuery(tracesAllQueryFilter) observes the result    *)
(* kept for the descriptor of the current render.                           *)

\* The render that follows a change of URL-backed state: when the descriptor
\* changed, the query observes the new descriptor (its cached data, if any,
\* else loading) and a fetch for it is issued unless one is in flight.
Rerender(cached) ==
    IF tracesAllQueryFilter' = tracesAllQueryFilter
    THEN /\ traces' = traces
         /\ inflight' = inflight
    ELSE /\ inflight' = inflight \cup {tracesAllQueryFilter'}
         /\ Cardinality(inflight' \ {tracesAllQueryFilter'}) <= MaxStaleInFlight
         /\ traces' = IF cached = Undefined THEN LoadingResult ELSE SuccessResult(cached)

\* utils.traces.all.invalidate(): the observed query is fetched again.
Invalidate ==
    /\ inflight' = inflight \cup {tracesAllQueryFilter}
    /\ traces' = traces

\* setPaginationState that also resets the selection.
SetPaginationState_resetsSelection(p, cached) ==
    /\ paginationState' = p
    /\ selectedRows' = EmptySelection
    /\ UNCHANGED <<userId, userFilterState, searchQuery, orderByState>>
    /\ Rerender(cached)
    /\ lastOp' = [op |-> "setPaginationState", before |-> selectedRows, pagination |-> p]
    /\ UNCHANGED cellVars

SetPaginationState(p, cached) ==
    /\ paginationState' = p
    /\ UNCHANGED <<userId, userFilterState, searchQuery, orderByState, selectedRows>>
    /\ Rerender(cached)
    /\ lastOp' = [op |-> "setPaginationState", before |-> selectedRows, pagination |-> p]
    /\ UNCHANGED cellVars

SetSearchQuery(q, cached) ==
    /\ searchQuery' = q
    /\ UNCHANGED <<userId, userFilterState, orderByState, paginationState, selectedRows>>
    /\ Rerender(cached)
    /\ lastOp' = [op |-> "setSearchQuery", before |-> selectedRows, search |-> q]
    /\ UNCHANGED cellVars

SetOrderByState(o, cached) ==
    /\ orderByState' = o
    /\ UNCHANGED <<userId, userFilterState, searchQuery, paginationState, selectedRows>>
    /\ Rerender(cached)
    /\ lastOp' = [op |-> "setOrderByState", before |-> selectedRows, orderBy |-> o]
    /\ UNCHANGED cellVars

SetUserFilterState(F, cached) ==
    /\ userFilterState' = F
    /\ UNCHANGED <<userId, searchQuery, orderByState, paginationState, selectedRows>>
    /\ Rerender(cached)
    /\ lastOp' = [op |-> "setUserFilterState", before |-> selectedRows, filter |-> F]
    /\ UNCHANGED cellVars

\* A listing fetch settles with the response r.
ListingResolved(d, r) ==
    /\ d \in inflight
    /\ inflight' = inflight \ {d}
    /\ traces' = IF d = tracesAllQueryFilter THEN SuccessResult(r) ELSE traces
    /\ UNCHANGED <<userId, urlVars, selectedRows>>
    /\ lastOp' = [op |-> "resolved", before |-> selectedRows, current |-> (d = tracesAllQueryFilter), response |-> r]
    /\ UNCHANGED cellVars

\* A listing fetch settles with an error: the data in hand is kept.
ListingFailed(d, msg) ==
    /\ d \in inflight
    /\ inflight' = inflight \ {d}
    /\ traces' = IF d = tracesAllQueryFilter THEN ErrorResult(traces.data, msg) ELSE traces
    /\ UNCHANGED <<userId, urlVars, selectedRows>>
    /\ lastOp' = [op |-> "failed", before |-> selectedRows, current |-> (d = tracesAllQueryFilter), message |-> msg]
    /\ UNCHANGED cellVars

----------------------------------------------------------------------------
(* Selection and delete handlers.                                           *)

\* columns[select].cell onCheckedChange: a click on the checkbox of row id.
RowCheckedChange(id) ==
    /\ id \in TableRowIds
    /\ selectedRows' =
           ApplyUpdates(selectedRows, <<ToggleRow(id, id \notin Keys(selectedRows))>>)
    /\ UNCHANGED <<userId, urlVars, traces, inflight>>
    /\ lastOp' = [op |-> "rowCheckedChange", before |-> selectedRows, id |-> id]
    /\ UNCHANGED cellVars

\* columns[select].header onCheckedChange: a click on the header checkbox,
\* which reports unchecked when it was checked and checked otherwise.
HeaderCheckedChange ==
    LET value == HeaderChecked # "true" IN
    /\ selectedRows' = ApplyUpdates(selectedRows, HeaderUpdates(value))
    /\ UNCHANGED <<userId, urlVars, traces, inflight>>
    /\ lastOp' = [op |-> "headerCheckedChange", before |-> selectedRows, value |-> value]
    /\ UNCHANGED cellVars

\* The bulk delete of TraceTableMultiSelectAction succeeds: onDeleteSuccess
\* runs; the control may also have the listing fetched again.
BulkDeleteSuccess(refetch) ==
    /\ ActionButtonsShown
    /\ selectedRows' = ApplyUpdates(selectedRows, <<SetTo(OnDeleteSuccessValue)>>)
    /\ IF refetch THEN Invalidate ELSE UNCHANGED <<traces, inflight>>
    /\ UNCHANGED <<userId, urlVars>>
    /\ lastOp' = [op |-> "bulkDeleteSuccess", before |-> selectedRows, ids |-> SelectedOnPage]
    /\ UNCHANGED cellVars

\* The DeleteButton of the action column of row id succeeds: invalidateFunc.
RowDeleteSuccess(id) ==
    /\ id \in TableRowIds
    /\ Invalidate
    /\ UNCHANGED <<userId, urlVars, selectedRows>>
    /\ lastOp' = [op |-> "rowDeleteSuccess", before |-> selectedRows, deleted |-> id]
    /\ UNCHANGED cellVars

----------------------------------------------------------------------------
(* TracesDynamicCell: the cell of the input, output and metadata columns,   *)
(* and the query api.traces.byId.useQuery({traceId}, {enabled,              *)
(* refetchOnMount: false}) it observes. The three cells of a row share the  *)
(* query of the row's trace id.                                             *)

\* The trace ids that key a traces.byId query.
DetailKeys == {"t1", "t2"}

\* No TracesDynamicCell of the row has been rendered yet.
NoCell == [state |-> "none", traceId |-> Undefined]

\* A traces.byId query: data is "trace.data is there", failed is "the last
\* fetch failed", fetching is "a fetch is in flight".
NoQuery == [data |-> FALSE, failed |-> FALSE, fetching |-> FALSE]

\* enabled: typeof traceId === "string"
Enabled(traceId) == traceId.tag = "string"

\* isLoading of the query the cell observes (status "loading": no data and
\* no error); a disabled query has no data either.
CellIsLoading ==
    IF Enabled(dynamicCell.traceId)
    THEN /\ ~byId[dynamicCell.traceId.val].data
         /\ ~byId[dynamicCell.traceId.val].failed
    ELSE TRUE

\* Mounting with the default refetchOnMount: data in hand is fetched again.
ShouldFetchOnMount_refetchOnMount(traceId) ==
    Enabled(traceId)

\* Whether mounting the cell asks for a fetch: the query is enabled and,
\* refetchOnMount being false, it has no data yet.
ShouldFetchOnMount(traceId) ==
    Enabled(traceId) /\ ~byId[traceId.val].data

\* Whether a render with another traceId asks for a fetch: the query of the
\* new id is enabled and has no data, or has data that is stale.
ShouldFetchOnIdChange(traceId, stale) ==
    Enabled(traceId) /\ (~byId[traceId.val].data \/ stale)

\* One traces.byId fetch is issued unless one is already in flight for the
\* same id (the query layer shares it).
FetchById(traceId, wanted) ==
    IF wanted /\ ~byId[traceId.val].fetching
    THEN /\ detailFetches < MaxDetailFetches
         /\ byId' = [byId EXCEPT ![traceId.val].fetching = TRUE]
         /\ detailFetches' = detailFetches + 1
    ELSE UNCHANGED <<byId, detailFetches>>

\* The table renders the row's cell anew (first render of the row, or a
\* re-render of the table that replaced the cell).
CellMount(traceId) ==
    /\ dynamicCell.state # "mounted"
    /\ dynamicCell' = [state |-> "mounted", traceId |-> traceId]
    /\ FetchById(traceId, ShouldFetchOnMount(traceId))
    /\ UNCHANGED <<userId, urlVars, selectedRows, traces, inflight>>
    /\ lastOp' = [op |-> "cellMount", before |-> selectedRows,
                  remount |-> (/\ dynamicCell.state = "unmounted"
                               /\ dynamicCell.traceId = traceId)]

\* A re-render of the table drops the cell; a fetch in flight goes on.
CellUnmount ==
    /\ dynamicCell.state = "mounted"
    /\ dynamicCell' = [dynamicCell EXCEPT !.state = "unmounted"]
    /\ UNCHANGED <<userId, urlVars, selectedRows, traces, inflight, byId, detailFetches>>
    /\ lastOp' = [op |-> "cellUnmount", before |-> selectedRows]

\* The mounted cell renders again (singleLine, selection, ... changed), with
\* the same traceId or another one.
CellRender(traceId, stale) ==
    /\ dynamicCell.state = "mounted"
    /\ dynamicCell' = [dynamicCell EXCEPT !.traceId = traceId]
    /\ FetchById(traceId, /\ traceId # dynamicCell.traceId
                          /\ ShouldFetchOnIdChange(traceId, stale))
    /\ UNCHANGED <<userId, urlVars, selectedRows, traces, inflight>>
    /\ lastOp' = [op |-> "cellRender", before |-> selectedRows,
                  idChanged |-> (traceId # dynamicCell.traceId)]

\* A traces.byId fetch succeeds.
DetailResolved(k) ==
    /\ byId[k].fetching
    /\ byId' = [byId EXCEPT ![k] = [data |-> TRUE, failed |-> FALSE, fetching |-> FALSE]]
    /\ UNCHANGED <<userId, urlVars, selectedRows, traces, inflight, dynamicCell, detailFetches>>
    /\ lastOp' = [op |-> "detailResolved", before |-> selectedRows, key |-> k]

\* A traces.byId fetch fails: data in hand is kept.
DetailFailed(k) ==
    /\ byId[k].fetching
    /\ byId' = [byId EXCEPT ![k] = [@ EXCEPT !.failed = TRUE, !.fetching = FALSE]]
    /\ UNCHANGED <<userId, urlVars, selectedRows, traces, inflight, dynamicCell, detailFetches>>
    /\ lastOp' = [op |-> "detailFailed", before |-> selectedRows, key |-> k]

----------------------------------------------------------------------------
(* Initial states and the inputs of the handlers.                           *)

\* After the mount: the URL holds no state, nothing is selected, and the
\* listing is fetched; the query layer may hold data of an earlier mount.
InitWith(users, cachedResponses) ==
    /\ userId \in users
    /\ userFilterState = DefaultFilterState
    /\ searchQuery = Null
    /\ orderByState = DefaultOrderBy
    /\ paginationState = [pageIndex |-> DefaultPageIndex, pageSize |-> DefaultPageSize]
    /\ selectedRows = EmptySelection
    /\ traces \in {LoadingResult} \cup {SuccessResult(r) : r \in cachedResponses}
    /\ inflight = {tracesAllQueryFilter}
    /\ dynamicCell = NoCell
    /\ byId = [k \in DetailKeys |-> NoQuery]
    /\ detailFetches = 0
    /\ lastOp = [op |-> "mount", before |-> EmptySelection]

T1 == [id |-> "t1", name |-> Str("n"), userId |-> Null, release |-> Null,
       version |-> Str("v"), sessionId |-> Null, latency |-> Num(0)]
T2 == [id |-> "t2", name |-> Null, userId |-> Str("u1"), release |-> Str("r"),
       version |-> Null, sessionId |-> Str("s"), latency |-> Null]

Responses ==
    {[traces |-> <<T1>>, totalCount |-> 3],
     [traces |-> <<T2, T1>>, totalCount |-> 3]}

Cached(responses) == {Undefined} \cup responses

Messages == {"boom"}

UserIds == {Undefined, Str(""), Str("u1")}

Paginations ==
    {[pageIndex |-> DefaultPageIndex, pageSize |-> DefaultPageSize],
     [pageIndex |-> DefaultPageIndex + 1, pageSize |-> 10]}
SearchQueries == {Null, Str("q")}
OrderBys == {DefaultOrderBy, [column |-> "name", order |-> "ASC"]}
FilterStates == {DefaultFilterState, << >>}

Init == InitWith({Str("u1")}, Responses)

Next ==
    \/ \E p \in Paginations, c \in {Undefined} : SetPaginationState(p, c)
    \/ \E q \in SearchQueries, c \in {Undefined} : SetSearchQuery(q, c)
    \/ \E o \in OrderBys, c \in {Undefined} : SetOrderByState(o, c)
    \/ \E F \in FilterStates, c \in {Undefined} : SetUserFilterState(F, c)
    \/ \E d \in inflight, r \in Responses : ListingResolved(d, r)
    \/ \E d \in inflight, m \in Messages : ListingFailed(d, m)
    \/ \E id \in TableRowIds : RowCheckedChange(id)
    \/ HeaderCheckedChange
    \/ \E refetch \in BOOLEAN : BulkDeleteSuccess(refetch)
    \/ \E id \in TableRowIds : RowDeleteSuccess(id)

Spec == Init /\ [][Next]_vars

----------------------------------------------------------------------------
(* The filter list under every user id and every edit of the filter UI.     *)

NameFilter ==
    [column |-> "Name", type |-> "string", operator |-> "=", value |-> "n"]

FilterPredicates == {NameFilter, UserIdPredicate("u1")}

RECURSIVE SeqsUpTo(_, _)
SeqsUpTo(S, n) ==
    IF n = 0 THEN {<< >>}
    ELSE LET shorter == SeqsUpTo(S, n - 1)
         IN  shorter \cup {Append(q, x) : q \in shorter, x \in S}

FilterLists == SeqsUpTo(FilterPredicates, MaxFilters)

FilterResponses == {[traces |-> <<T1>>, totalCount |-> 1]}

InitFilter == InitWith(UserIds, {})

NextFilter ==
    \/ \E F \in FilterLists : SetUserFilterState(F, Undefined)
    \/ \E d \in inflight, r \in FilterResponses : ListingResolved(d, r)

SpecFilter == InitFilter /\ [][NextFilter]_vars

----------------------------------------------------------------------------
(* The row transformation over every remote record.                         *)

RowRecords ==
    [id : {"t1"},
     name : {Null, Str("n")},
     userId : {Null, Str("u1")},
     release : {Null, Str(""), Str("r")},
     version : {Null, Str("v")},
     sessionId : {Null, Str("s")},
     latency : {Null} \cup {Num(n) : n \in 0..MaxLatency}]

RowResponses == {[traces |-> <<t>>, totalCount |-> 1] : t \in RowRecords}

InitRow == InitWith({Undefined}, RowResponses)

NextRow ==
    \/ \E d \in inflight, r \in RowResponses : ListingResolved(d, r)
    \/ \E d \in inflight, m \in Messages : ListingFailed(d, m)
    \/ \E id \in TableRowIds : RowDeleteSuccess(id)

SpecRow == InitRow /\ [][NextRow]_vars

----------------------------------------------------------------------------
(* The page count over total counts and page sizes.                         *)

TotalCounts == 0..MaxTotalCount \cup {100, 101}
PageSizes == 0..MaxPageSize \cup {DefaultPageSize}

CountResponses == {[traces |-> <<T1>>, totalCount |-> n] : n \in TotalCounts}

PagePaginations == [pageIndex : {DefaultPageIndex}, pageSize : PageSizes]

InitPage == InitWith({Undefined}, CountResponses)

NextPage ==
    \/ \E p \in PagePaginations, c \in Cached(CountResponses) : SetPaginationState(p, c)
    \/ \E d \in inflight, r \in CountResponses : ListingResolved(d, r)
    \/ \E d \in inflight, m \in Messages : ListingFailed(d, m)

SpecPage == InitPage /\ [][NextPage]_vars

\* The cell of one row, next to handlers that re-render the table without
\* touching the cell's trace id.
CellTraceIds == {Str(k) : k \in DetailKeys} \cup {Undefined}
CellResponses == {[traces |-> <<T1>>, totalCount |-> 1]}

InitCell == InitWith({Undefined}, {})

NextCell ==
    \/ \E id \in CellTraceIds : CellMount(id)
    \/ CellUnmount
    \/ \E id \in CellTraceIds, stale \in BOOLEAN : CellRender(id, stale)
    \/ \E k \in DetailKeys : DetailResolved(k)
    \/ \E k \in DetailKeys : DetailFailed(k)
    \/ \E d \in inflight, r \in CellResponses : ListingResolved(d, r)
    \/ \E id \in TableRowIds : RowCheckedChange(id)
    \/ \E id \in TableRowIds : RowDeleteSuccess(id)

SpecCell == InitCell /\ [][NextCell]_vars

----------------------------------------------------------------------------
(* Claims.                                                                  *)

NonEmptyString(v) == v # Undefined /\ v.tag = "string" /\ v.val # ""

\* C1 (as stated): whenever a user id is provided, the filter of the listing
\* query is the user-edited list followed by the one synthetic User ID
\* predicate, and it is the user-edited list alone when none is provided; the
\* filter UI holds the user-edited list only.
C1_FilterWhenProvided ==
    /\ tracesAllQueryFilter.filter =
           userFilterState \o (IF userId # Undefined
                               THEN <<UserIdPredicate(userId.val)>> ELSE << >>)
    /\ ToolbarFilterState = userFilterState

\* C1 (amended): the filter of the listing query is the user-edited list
\* followed by exactly one synthetic User ID predicate when the user id is a
\* non-empty string, and is the user-edited list alone when the user id is
\* absent or the empty string; the filter UI holds the user-edited list only,
\* after any sequence of filter edits.
C1_FilterWhenNonEmpty ==
    /\ NonEmptyString(userId) =>
          /\ Len(tracesAllQueryFilter.filter) = Len(userFilterState) + 1
          /\ SubSeq(tracesAllQueryFilter.filter, 1, Len(userFilterState)) = userFilterState
          /\ tracesAllQueryFilter.filter[Len(userFilterState) + 1] =
                 [column |-> "User ID", type |-> "string", operator |-> "=",
                  value |-> userId.val]
    /\ ~NonEmptyString(userId) => tracesAllQueryFilter.filter = userFilterState
    /\ ToolbarFilterState = userFilterState
    /\ Len(ToolbarFilterState) = Len(tracesAllQueryFilter.filter) - Len(userIdFilter)

C1_Witness ==
    /\ userId = Str("u1")
    /\ lastOp.op = "setUserFilterState"
    /\ userFilterState = <<NameFilter, UserIdPredicate("u1")>>
    /\ Len(tracesAllQueryFilter.filter) = 3

\* C2: after the header checkbox is toggled to unchecked the selection mapping
\* is empty, whatever it held before.
C2_HeaderUncheckClears ==
    (lastOp.op = "headerCheckedChange" /\ ~lastOp.value) => Keys(selectedRows) = {}

C2_Witness ==
    /\ lastOp.op = "headerCheckedChange"
    /\ ~lastOp.value
    /\ Keys(lastOp.before) \ TableRowIds # {}
    /\ Keys(selectedRows) = {}

\* C3: the multi-select control is shown if and only if some selected id is an
\* id of the loaded page of traces; it is hidden while no data is loaded.
C3_ControlShownIffSelectedOnPage ==
    /\ ActionButtonsShown <=>
          /\ traces.data # Undefined
          /\ \E k \in Keys(selectedRows) :
                \E i \in 1..Len(traces.data.traces) : traces.data.traces[i].id = k
    /\ traces.data = Undefined => ~ActionButtonsShown
    /\ isLoading => ~ActionButtonsShown

C3_Witness ==
    /\ Keys(selectedRows) # {}
    /\ traces.data # Undefined
    /\ Keys(selectedRows) \cap SeqToSet(LoadedIds) = {}
    /\ ~ActionButtonsShown

\* C4: after a bulk delete succeeds the selection mapping is empty, the ids
\* that were not in the deleted set included.
C4_BulkDeleteClears ==
    lastOp.op = "bulkDeleteSuccess" => Keys(selectedRows) = {}

C4_Witness ==
    /\ lastOp.op = "bulkDeleteSuccess"
    /\ Keys(lastOp.before) \ lastOp.ids # {}
    /\ Keys(selectedRows) = {}

OptionalPassedThrough(field, out) ==
    /\ field = Null => out = Undefined
    /\ field # Null => out = field

\* C5: the row of a remote record has latency undefined exactly when the
\* record's latency is null and the record's latency otherwise (0 included);
\* release, version and sessionId are undefined for null and passed through
\* otherwise.
C5_OptionalScalars ==
    isSuccess =>
        \A i \in 1..Len(traces.data.traces) :
            LET rec == traces.data.traces[i]
                row == DataProp.data[i]
            IN  /\ row.latency = Undefined <=> rec.latency = Null
                /\ rec.latency # Null => row.latency = rec.latency
                /\ OptionalPassedThrough(rec.release, row.release)
                /\ OptionalPassedThrough(rec.version, row.version)
                /\ OptionalPassedThrough(rec.sessionId, row.sessionId)

C5_Witness ==
    /\ isSuccess
    /\ lastOp.op = "resolved"
    /\ traces.data.traces[1].latency = Num(0)
    /\ traces.data.traces[1].release = Str("")
    /\ traces.data.traces[1].sessionId = Null
    /\ DataProp.data[1].latency = Num(0)
    /\ DataProp.data[1].sessionId = Undefined

\* C6: the page count is the least n with n * pageSize >= totalCount for a
\* positive page size, totalCount being 0 while there is no data; it is 3 for
\* totalCount 101 and pageSize 50.
C6_PageCountIsCeiling ==
    /\ traces.data = Undefined => totalCount = 0
    /\ traces.data # Undefined => totalCount = traces.data.totalCount
    /\ paginationState.pageSize > 0 =>
          /\ pageCount.tag = "number"
          /\ pageCount.val * paginationState.pageSize >= totalCount
          /\ \A n \in 0..totalCount :
                n * paginationState.pageSize >= totalCount => pageCount.val <= n
    /\ (totalCount = 101 /\ paginationState.pageSize = 50) => pageCount = Num(3)

C6_Witness ==
    /\ lastOp.op = "resolved"
    /\ totalCount = 101
    /\ paginationState.pageSize = 50
    /\ pageCount = Num(3)

\* C7: the latency cell of the row of a remote record is blank exactly when
\* the record's latency is null; for latency 0 it shows a duration.
C7_LatencyCellBlankIffNull ==
    isSuccess =>
        \A i \in 1..Len(traces.data.traces) :
            LET rec == traces.data.traces[i]
                cell == LatencyCell(DataProp.data[i])
            IN  /\ cell = Undefined <=> rec.latency = Null
                /\ rec.latency = Num(0) => cell = [tag |-> "duration", seconds |-> 0]

C7_Witness ==
    /\ isSuccess
    /\ lastOp.op = "resolved"
    /\ lastOp.current
    /\ traces.data.traces[1].latency = Num(0)
    /\ LatencyCell(DataProp.data[1]).tag = "duration"

SelectionHandlers == {"rowCheckedChange", "headerCheckedChange", "bulkDeleteSuccess"}

\* C8: only a row checkbox toggle, the header checkbox toggle and a successful
\* bulk delete change the selection mapping; a change of pagination, filter,
\* search or order, a listing fetch that settles and a single-row delete leave
\* it as it was.
C8_SelectionFrame ==
    [][/\ selectedRows' # selectedRows => lastOp'.op \in SelectionHandlers
       /\ lastOp'.op \notin SelectionHandlers => selectedRows' = selectedRows]_vars

C8_Witness ==
    /\ lastOp.op = "resolved"
    /\ lastOp.current
    /\ traces.data # Undefined
    /\ Keys(selectedRows) \ SeqToSet(LoadedIds) # {}
    /\ selectedRows = lastOp.before

\* C9: the data prop is one of three payloads and never a thrown error:
\* loading; error with the message of the fetch error; the transformed rows
\* of the fetched traces in their order.
C9_TaggedPayload ==
    /\ DataProp # TypeError
    /\ isLoading => DataProp = [isLoading |-> TRUE, isError |-> FALSE]
    /\ (~isLoading /\ isError) =>
          DataProp = [isLoading |-> FALSE, isError |-> TRUE, error |-> traces.error.message]
    /\ (~isLoading /\ ~isError) =>
          /\ traces.data # Undefined
          /\ DOMAIN DataProp = {"isLoading", "isError", "data"}
          /\ ~DataProp.isLoading /\ ~DataProp.isError
          /\ Len(DataProp.data) = Len(traces.data.traces)
          /\ \A i \in 1..Len(traces.data.traces) :
                DataProp.data[i] = convertToTableRow(traces.data.traces[i])
    /\ "data" \in DOMAIN DataProp => traces.data # Undefined

C9_Witness ==
    /\ isError
    /\ traces.data # Undefined
    /\ DataProp = [isLoading |-> FALSE, isError |-> TRUE, error |-> "boom"]

\* The descriptor of the URL-backed state after a step.
DescriptorOfNextState ==
    [page |-> paginationState'.pageIndex,
     limit |-> paginationState'.pageSize,
     projectId |-> "p1",
     filter |-> userFilterState' \o userIdFilter',
     searchQuery |-> searchQuery',
     orderBy |-> orderByState']

\* Every fetch issued by a step carries the descriptor of the URL-backed
\* state the step leaves.
IssuedWithCurrentState ==
    [][\A d \in inflight' \ inflight : d = DescriptorOfNextState]_vars

\* A fetch leaves the fetches in flight only by settling, one at a time.
NeverCancelled ==
    [][inflight \ inflight' # {} =>
          /\ lastOp'.op \in {"resolved", "failed"}
          /\ Cardinality(inflight \ inflight') = 1
          /\ UNCHANGED urlVars]_vars

C12_HandedIdsAreSelectedOnPage ==
    ActionButtonsShown =>
        /\ traces.data # Undefined
        /\ selectedTraceIds = Keys(selectedRows) \cap SeqToSet(LoadedIds)
        /\ selectedTraceIds \subseteq SeqToSet(LoadedIds)
        /\ selectedTraceIds # {}

\* The control is shown while the selection also holds an id that is not on
\* the loaded page.
C12_Witness ==
    /\ ActionButtonsShown
    /\ isSuccess
    /\ Keys(selectedRows) \ SeqToSet(LoadedIds) # {}
    /\ selectedTraceIds # Keys(selectedRows)

\* A step issues a traces.byId fetch.
DetailFetchIssued == detailFetches' # detailFetches

====
